---- MODULE Spec2Model ----
(***************************************************************************)
(* A model of main.py of comick-manga-downloader: the identifier           *)
(* extraction functions, the --chapters parser, the chapter catalog        *)
(* builder of main, collect_pages and download_images.                     *)
(*                                                                         *)
(* A Python str is a sequence of one-character strings.  A Python call     *)
(* that may raise is a record [exc, val]: exc = "none" and val the         *)
(* returned value, or exc the name of the exception raised.                *)
(***************************************************************************)
EXTENDS Integers, Sequences, FiniteSets, TLC

VARIABLES
  pc,                    \* where main is
  run,                   \* "first" or "second" run of the program
  chapters_str,          \* --chapters
  force_redownload,      \* --force
  chapters_to_download,  \* the selection, line 218
  dom_options,           \* the <option>s of the chapter <select>, in page order
  opt_i,                 \* the option the loop of line 266 is at
  chapters,              \* the catalog, line 263
  ch_i,                  \* the chapter the loop of line 290 is at
  driver,                \* "none", "open" or "closed"
  sessions,              \* browser sessions opened in this run
  navigations,           \* driver.get calls that loaded a page in this run
  dirs,                  \* the directories that exist
  fetched,               \* the image requests made, in order: the URL and
                         \* the file the response is written to
  exc,                   \* the uncaught exception raised, "none" if none
  img_elements,          \* the <img>s of the page download_images or
                         \* collect_pages is called on
  pages_ret,             \* what collect_pages returned or raised
  chapter,               \* the chapter argument of download_images
  dl_pc,                 \* where download_images is
  dl_i,                  \* the element the loop of line 130 is at
  dl_j,                  \* the image the loop of line 158 is at
  images,                \* the list `images` of line 128
  files,                 \* the files that exist, with what was written
  calls,                 \* calls of download_images made
  input_text,            \* the argument of the extraction function under call
  fn,                    \* the function called on its own, "none" before the call
  ret                    \* what the extraction function returned or raised

exVars == <<input_text, fn, ret>>

mainLocals ==
  <<pc, run, chapters_str, force_redownload, chapters_to_download, dom_options, opt_i,
    chapters, ch_i, driver, sessions, navigations>>

\* the file system, the network log and the exception raised
worldVars == <<dirs, fetched, exc>>

pageVars == <<img_elements, pages_ret>>

dlVars == <<chapter, dl_pc, dl_i, dl_j, images, files, calls>>

vars == <<mainLocals, worldVars, pageVars, dlVars, exVars>>

(***************************************************************************)
(* Bounds of the model.                                                    *)
(***************************************************************************)
\* number of pieces a text handed to an extraction function is made of
MaxPieces == 4

\* number of <option>s of the chapter <select>
MaxOptions == 3

\* number of characters of a --chapters value
MaxSpecLen == 4

\* number of <img>s of a page
MaxImgs == 2

\* number of calls of download_images
MaxCalls == 3

(***************************************************************************)
(* Python built-ins used by main.py.                                       *)
(***************************************************************************)
Ret(v) == [exc |-> "none", val |-> v]

Raise(e) == [exc |-> e, val |-> <<>>]

\* get_attribute() of an attribute the element does not have
None == <<"<None>">>

\* Python truthiness of a str-or-None value: `not x`
Falsy(s) == s = None \/ s = <<>>

Digits == {"0", "1", "2", "3", "4", "5", "6", "7", "8", "9"}

Whitespace == {" ", "\t", "\n"}

DigitVal(c) ==
  CASE c = "0" -> 0 [] c = "1" -> 1 [] c = "2" -> 2 [] c = "3" -> 3
    [] c = "4" -> 4 [] c = "5" -> 5 [] c = "6" -> 6 [] c = "7" -> 7
    [] c = "8" -> 8 [] c = "9" -> 9

DigitChar(n) ==
  CASE n = 0 -> "0" [] n = 1 -> "1" [] n = 2 -> "2" [] n = 3 -> "3"
    [] n = 4 -> "4" [] n = 5 -> "5" [] n = 6 -> "6" [] n = 7 -> "7"
    [] n = 8 -> "8" [] n = 9 -> "9"

\* s[i:] and s[:i] on 1-based sequences
From(s, i) == SubSeq(s, i, Len(s))

\* `lit in s` at position i
MatchesAt(s, lit, i) ==
  /\ i >= 1
  /\ i + Len(lit) - 1 <= Len(s)
  /\ SubSeq(s, i, i + Len(lit) - 1) = lit

\* `lit in s`
Contains(s, lit) == \E i \in 1..Len(s) : MatchesAt(s, lit, i)

\* the first position >= i at which lit occurs in s, 0 when there is none
RECURSIVE FindFrom(_, _, _)
FindFrom(s, lit, i) ==
  IF i + Len(lit) - 1 > Len(s) THEN 0
  ELSE IF MatchesAt(s, lit, i) THEN i
  ELSE FindFrom(s, lit, i + 1)

\* str.split(sep) for a one-character separator: empty fields are kept
RECURSIVE SplitOn(_, _)
SplitOn(s, sep) ==
  LET i == FindFrom(s, <<sep>>, 1)
  IN  IF i = 0 THEN <<s>>
      ELSE <<SubSeq(s, 1, i - 1)>> \o SplitOn(From(s, i + 1), sep)

\* str.split() without argument: runs of whitespace separate, no empty field
RECURSIVE SplitWs(_)
SplitWs(s) ==
  IF s = <<>> THEN <<>>
  ELSE IF s[1] \in Whitespace THEN SplitWs(Tail(s))
  ELSE LET nonws == {k \in 1..Len(s) : \A j \in 1..k : s[j] \notin Whitespace}
           k == CHOOSE m \in nonws : \A n \in nonws : n <= m
       IN  <<SubSeq(s, 1, k)>> \o SplitWs(From(s, k + 1))

\* the length of the run of digits of s that starts at position p
RECURSIVE DigitRun(_, _)
DigitRun(s, p) ==
  IF p <= Len(s) /\ s[p] \in Digits THEN 1 + DigitRun(s, p + 1) ELSE 0

\* int(s) for a str of decimal digits; anything else raises ValueError
RECURSIVE IntVal(_)
IntVal(s) ==
  IF s = <<>> THEN 0 ELSE 10 * IntVal(SubSeq(s, 1, Len(s) - 1)) + DigitVal(s[Len(s)])

int(s) ==
  IF s # <<>> /\ \A i \in 1..Len(s) : s[i] \in Digits
  THEN Ret(IntVal(s))
  ELSE Raise("ValueError")

\* str(n) for a non-negative int
RECURSIVE str(_)
str(n) ==
  IF n < 10 THEN <<DigitChar(n)>> ELSE str(n \div 10) \o <<DigitChar(n % 10)>>

(***************************************************************************)
(* Identifier extraction.                                                  *)
(***************************************************************************)
\* backtracking of [0-9]*\.?[0-9] once "chapter-" matched and the greedy
\* [0-9]* took d digits from position p: the end of the match, 0 if none
RECURSIVE ChapterTail(_, _, _)
ChapterTail(s, p, d) ==
  LET q == p + d
  IN  IF q <= Len(s) /\ s[q] = "." /\ q + 1 <= Len(s) /\ s[q + 1] \in Digits
      THEN q + 1
      ELSE IF q <= Len(s) /\ s[q] \in Digits
      THEN q
      ELSE IF d = 0 THEN 0
      ELSE ChapterTail(s, p, d - 1)

\* re.compile(r"chapter-[0-9]*\.?[0-9]").search(text): the matched text,
\* None when nothing matches
RECURSIVE ChapterSearch(_, _)
ChapterSearch(s, from) ==
  LET lit == <<"c", "h", "a", "p", "t", "e", "r", "-">>
      i == FindFrom(s, lit, from)
  IN  IF i = 0 THEN None
      ELSE LET p == i + Len(lit)
               e == ChapterTail(s, p, DigitRun(s, p))
           IN  IF e = 0 THEN ChapterSearch(s, i + 1) ELSE SubSeq(s, i, e)

extract_chapter_number(text) ==
  LET m == ChapterSearch(text, 1)
  IN  IF m # None
      THEN LET parts == SplitOn(m, "-")
           IN  IF Len(parts) >= 2 THEN Ret(parts[2]) ELSE Raise("IndexError")
      ELSE Ret(<<"0">>)

\* re.compile(r"page [0-9]*").search(text): the matched text, None when
\* nothing matches
PageSearch(s) ==
  LET lit == <<"p", "a", "g", "e", " ">>
      i == FindFrom(s, lit, 1)
  IN  IF i = 0 THEN None
      ELSE SubSeq(s, i, i + Len(lit) - 1 + DigitRun(s, i + Len(lit)))

extract_page_number(text) ==
  LET m == PageSearch(text)
  IN  IF m # None
      THEN LET parts == SplitWs(m)
           IN  IF Len(parts) >= 2 THEN Ret(parts[2]) ELSE Raise("IndexError")
      ELSE Ret(<<"0">>)

extract_file_extension(text) ==
  LET segs == SplitOn(text, "/")
      ext == SplitOn(segs[Len(segs)], ".")
  IN  IF Len(ext) >= 2 THEN ext[Len(ext)] ELSE <<"j", "p", "g">>

\* re.compile(r"/[0-9]*-").search(image_src) is None
is_cover_image(image_src) ==
  ~ \E i \in 1..Len(image_src) :
      /\ image_src[i] = "/"
      /\ LET q == i + 1 + DigitRun(image_src, i + 1)
         IN  q <= Len(image_src) /\ image_src[q] = "-"

(***************************************************************************)
(* collect_pages.                                                          *)
(***************************************************************************)
\* the asset-host marker of lines 112 and 133
PicturesMarker == <<".", "p", "i", "c", "t", "u", "r", "e", "s", "/">>

\* the loop of collect_pages from image k on, `pages` being the list so far
RECURSIVE CollectFrom(_, _, _)
CollectFrom(elements, k, pages) ==
  IF k > Len(elements) THEN Ret(pages)
  ELSE LET image_src == elements[k].src
           image_alt == elements[k].alt
       IN  IF Falsy(image_src) \/ ~Contains(image_src, PicturesMarker)
           THEN CollectFrom(elements, k + 1, pages)
           ELSE IF ~Falsy(image_alt)
           THEN LET page_number == extract_page_number(image_alt)
                IN  IF page_number.exc # "none" THEN page_number
                    ELSE CollectFrom(elements, k + 1,
                           Append(pages, [number |-> page_number.val,
                                          image_url |-> image_src]))
           ELSE CollectFrom(elements, k + 1, pages)

collect_pages(elements) == CollectFrom(elements, 1, <<>>)

(***************************************************************************)
(* The --chapters parser of main.                                          *)
(***************************************************************************)
\* range(int(start), int(end)) in place of line 181: the end is left out
RangeStrsExclusive(a, b) == IF b <= a THEN <<>> ELSE [j \in 1..(b - a) |-> str(a + j - 1)]

\* [str(j) for j in range(a, b + 1)]
RangeStrs(a, b) == IF b < a THEN <<>> ELSE [j \in 1..(b - a + 1) |-> str(a + j - 1)]

expand_range(num) ==
  LET parts == SplitOn(num, "-")
  IN  IF Len(parts) # 2 THEN Raise("ValueError")
      ELSE LET start == int(parts[1])
               end == int(parts[2])
           IN  IF start.exc # "none" THEN start
               ELSE IF end.exc # "none" THEN end
               ELSE Ret(RangeStrs(start.val, end.val))

\* one turn of the loop of lines 223-228 (and lines 230-234): what term i
\* appends to chapters_to_download
TermTokens(i) == IF Contains(i, <<"-">>) THEN expand_range(i) ELSE Ret(<<i>>)

\* the loop of lines 223-228 from term k on, `acc` being the list so far
RECURSIVE TermsFrom(_, _, _)
TermsFrom(num, k, acc) ==
  IF k > Len(num) THEN Ret(acc)
  ELSE LET r == TermTokens(num[k])
       IN  IF r.exc # "none" THEN r ELSE TermsFrom(num, k + 1, acc \o r.val)

\* lines 218-234
ParseChapters(spec) ==
  IF Contains(spec, <<",">>)
  THEN TermsFrom(SplitOn(spec, ","), 1, <<>>)
  ELSE IF Contains(spec, <<"-">>) THEN expand_range(spec) ELSE Ret(<<spec>>)

\* x in list
InList(x, list) == \E k \in 1..Len(list) : list[k] = x

(***************************************************************************)
(* main.                                                                   *)
(***************************************************************************)
\* "/".join(parts)
RECURSIVE Join(_, _)
Join(parts, sep) ==
  IF parts = <<>> THEN <<>>
  ELSE IF Len(parts) = 1 THEN parts[1]
  ELSE parts[1] \o sep \o Join(Tail(parts), sep)

\* --url
url == <<"h", "t", "t", "p", "s", ":", "/", "/", "s", "i", "t", "e", "/", "c", "o", "m", "i", "c", "/", "f", "o", "o", "/", "i", "d", "-", "c", "h", "a", "p", "t", "e", "r", "-", "1", "-", "e", "n">>

\* line 215, --output not given
output_directory ==
  LET parts == SplitOn(url, "/") IN parts[Len(parts) - 1]

\* line 262
manga_url ==
  LET parts == SplitOn(url, "/") IN Join(SubSeq(parts, 1, Len(parts) - 1), <<"/">>)

\* lines 269-275: the chapter number of an option's label
LabelNumber(label) ==
  IF Contains(label, <<" ">>)
  THEN LET toks == SplitWs(label)
       IN  IF Len(toks) >= 2 THEN Ret(toks[2]) ELSE Raise("IndexError")
  ELSE Ret(label)

\* lines 280-284
MakeChapter(chapter_id, chapter_number) ==
  [id |-> chapter_id,
   number |-> chapter_number,
   url |-> manga_url \o <<"/">> \o chapter_id \o <<"-", "c", "h", "a", "p", "t", "e", "r", "-">> \o chapter_number \o <<"-", "e", "n">>,
   pages |-> <<>>]

\* line 286
Selected(number, selection) == InList(<<"*">>, selection) \/ InList(number, selection)

\* the directories of lines 296-299
OutDir == <<output_directory>>

ChaptersDir == <<output_directory, <<"c", "h", "a", "p", "t", "e", "r", "s">>>>

\* main is not running
MainIdle ==
  /\ pc = "idle"
  /\ run = "first"
  /\ chapters_str = <<"*">>
  /\ force_redownload = FALSE
  /\ chapters_to_download = <<>>
  /\ dom_options = <<>>
  /\ opt_i = 0
  /\ chapters = <<>>
  /\ ch_i = 0
  /\ driver = "none"
  /\ sessions = 0
  /\ navigations = 0

\* no extraction function is under call
ExtractIdle ==
  /\ input_text = <<>>
  /\ fn = "none"
  /\ ret = Ret(<<>>)

\* collect_pages is not under call
PageIdle ==
  /\ img_elements = <<>>
  /\ pages_ret = Ret(<<>>)

\* download_images is not under call
DownloadIdle ==
  /\ chapter = <<>>
  /\ dl_pc = "idle"
  /\ dl_i = 0
  /\ dl_j = 0
  /\ images = <<>>
  /\ files = <<>>
  /\ calls = 0

\* the arguments and the local variables of a run that is about to start
StartRun ==
  /\ pc = "parse"
  /\ chapters_to_download = <<>>
  /\ opt_i = 0
  /\ chapters = <<>>
  /\ ch_i = 0
  /\ driver = "none"
  /\ sessions = 0
  /\ navigations = 0
  /\ fetched = <<>>
  /\ exc = "none"

\* an uncaught exception ends main where it is raised
Abort(e) ==
  /\ pc' = "raised"
  /\ exc' = e

\* lines 218-234
ParseArgs ==
  /\ pc = "parse"
  /\ LET r == ParseChapters(chapters_str)
     IN  IF r.exc = "none"
         THEN /\ chapters_to_download' = r.val
              /\ pc' = "open"
              /\ UNCHANGED exc
         ELSE /\ Abort(r.exc)
              /\ UNCHANGED chapters_to_download
  /\ UNCHANGED <<run, chapters_str, force_redownload, dom_options, opt_i, chapters,
                 ch_i, driver, sessions, navigations, dirs, fetched>>
  /\ UNCHANGED <<pageVars, dlVars, exVars>>

\* line 244
OpenBrowser ==
  /\ pc = "open"
  /\ driver' = "open"
  /\ sessions' = sessions + 1
  /\ pc' = "get"
  /\ UNCHANGED <<run, chapters_str, force_redownload, chapters_to_download, dom_options,
                 opt_i, chapters, ch_i, navigations, dirs, fetched, exc>>
  /\ UNCHANGED <<pageVars, dlVars, exVars>>

\* line 245: the navigation succeeds or raises WebDriverException
GetUrl ==
  /\ pc = "get"
  /\ \E ok \in BOOLEAN :
       IF ok
       THEN /\ navigations' = navigations + 1
            /\ pc' = "age"
            /\ UNCHANGED exc
       ELSE /\ Abort("WebDriverException")
            /\ UNCHANGED navigations
  /\ UNCHANGED <<run, chapters_str, force_redownload, chapters_to_download, dom_options,
                 opt_i, chapters, ch_i, driver, sessions, dirs, fetched>>
  /\ UNCHANGED <<pageVars, dlVars, exVars>>

\* lines 247-257: the button is clicked, or NoSuchElementException is caught
AgeVerification ==
  /\ pc = "age"
  /\ pc' = "info"
  /\ UNCHANGED <<run, chapters_str, force_redownload, chapters_to_download, dom_options,
                 opt_i, chapters, ch_i, driver, sessions, navigations, dirs, fetched, exc>>
  /\ UNCHANGED <<pageVars, dlVars, exVars>>

\* line 259: [0] of an empty list raises IndexError
FindInfoContainer ==
  /\ pc = "info"
  /\ \E present \in BOOLEAN :
       IF present
       THEN pc' = "select" /\ UNCHANGED exc
       ELSE Abort("IndexError")
  /\ UNCHANGED <<run, chapters_str, force_redownload, chapters_to_download, dom_options,
                 opt_i, chapters, ch_i, driver, sessions, navigations, dirs, fetched>>
  /\ UNCHANGED <<pageVars, dlVars, exVars>>

\* where main goes once the loop of line 266 has no option left
AfterCatalog(n) == IF n = 0 THEN "collect" ELSE "catalog"

\* lines 261-266: [0] of an empty list raises IndexError; the options are
\* walked last to first
FindSelect ==
  /\ pc = "select"
  /\ \E present \in BOOLEAN :
       IF present
       THEN /\ opt_i' = Len(dom_options)
            /\ pc' = AfterCatalog(Len(dom_options))
            /\ ch_i' = 1
            /\ UNCHANGED exc
       ELSE /\ Abort("IndexError")
            /\ UNCHANGED <<opt_i, ch_i>>
  /\ UNCHANGED <<run, chapters_str, force_redownload, chapters_to_download, dom_options,
                 chapters, driver, sessions, navigations, dirs, fetched>>
  /\ UNCHANGED <<pageVars, dlVars, exVars>>

\* lines 280-287 without the test of line 286: every chapter is catalogued
CatalogWithAll(catalog, chapter_id, chapter_number, selection) ==
  Append(catalog, MakeChapter(chapter_id, chapter_number))

\* lines 280-287: the catalog after the option (chapter_id, chapter_number)
CatalogWith(catalog, chapter_id, chapter_number, selection) ==
  IF Selected(chapter_number, selection)
  THEN Append(catalog, MakeChapter(chapter_id, chapter_number))
  ELSE catalog

\* lines 266-287: one turn of the loop
CatalogStep ==
  /\ pc = "catalog"
  /\ opt_i >= 1
  /\ LET chapter_id == dom_options[opt_i].value
         chapter_number == LabelNumber(dom_options[opt_i].text)
     IN  IF chapter_number.exc # "none"
         THEN /\ Abort(chapter_number.exc)
              /\ UNCHANGED <<opt_i, chapters>>
         ELSE /\ chapters' = IF Falsy(chapter_id) THEN chapters
                             ELSE CatalogWith(chapters, chapter_id, chapter_number.val,
                                              chapters_to_download)
              /\ opt_i' = opt_i - 1
              /\ pc' = AfterCatalog(opt_i - 1)
              /\ UNCHANGED exc
  /\ UNCHANGED <<run, chapters_str, force_redownload, chapters_to_download, dom_options,
                 ch_i, driver, sessions, navigations, dirs, fetched>>
  /\ UNCHANGED <<pageVars, dlVars, exVars>>

\* the pages a chapter's URL may show
PageDoms ==
  { <<>>,
    << [src |-> <<"h", "t", "t", "p", "s", ":", "/", "/", "m", ".", "p", "i", "c", "t", "u", "r", "e", "s", "/", "c", "o", "v", "e", "r", ".", "j", "p", "g">>, alt |-> <<"c", "o", "v", "e", "r">>],
       [src |-> <<"h", "t", "t", "p", "s", ":", "/", "/", "m", ".", "p", "i", "c", "t", "u", "r", "e", "s", "/", "1", "-", "a", ".", "j", "p", "g">>, alt |-> <<"p", "a", "g", "e", " ", "1">>] >>,
    << [src |-> <<"h", "t", "t", "p", "s", ":", "/", "/", "m", ".", "p", "i", "c", "t", "u", "r", "e", "s", "/", "2", "-", "b", ".", "j", "p", "g">>, alt |-> <<"p", "a", "g", "e", " ", "x">>] >> }

\* lines 290-294: one turn of the loop; the navigation may raise
\* WebDriverException and collect_pages may raise
CollectStep ==
  /\ pc = "collect"
  /\ ch_i <= Len(chapters)
  /\ \E ok \in BOOLEAN, elements \in PageDoms :
       IF ~ok
       THEN /\ Abort("WebDriverException")
            /\ UNCHANGED <<navigations, chapters, ch_i>>
       ELSE LET r == collect_pages(elements)
            IN  /\ navigations' = navigations + 1
                /\ IF r.exc # "none"
                   THEN /\ Abort(r.exc)
                        /\ UNCHANGED <<chapters, ch_i>>
                   ELSE /\ chapters' = [chapters EXCEPT ![ch_i].pages = r.val]
                        /\ ch_i' = ch_i + 1
                        /\ UNCHANGED <<pc, exc>>
  /\ UNCHANGED <<run, chapters_str, force_redownload, chapters_to_download, dom_options,
                 opt_i, driver, sessions, dirs, fetched>>
  /\ UNCHANGED <<pageVars, dlVars, exVars>>

\* lines 296-297: os.mkdir may raise OSError
MkdirOutput ==
  /\ pc = "collect"
  /\ ch_i > Len(chapters)
  /\ IF OutDir \in dirs
     THEN pc' = "mkdir" /\ UNCHANGED <<dirs, exc>>
     ELSE \E ok \in BOOLEAN :
            IF ok
            THEN dirs' = dirs \cup {OutDir} /\ pc' = "mkdir" /\ UNCHANGED exc
            ELSE Abort("OSError") /\ UNCHANGED dirs
  /\ UNCHANGED <<run, chapters_str, force_redownload, chapters_to_download, dom_options,
                 opt_i, chapters, ch_i, driver, sessions, navigations, fetched>>
  /\ UNCHANGED <<pageVars, dlVars, exVars>>

\* lines 298-299
MkdirChapters ==
  /\ pc = "mkdir"
  /\ IF ChaptersDir \in dirs
     THEN pc' = "close" /\ UNCHANGED <<dirs, exc>>
     ELSE \E ok \in BOOLEAN :
            IF ok
            THEN dirs' = dirs \cup {ChaptersDir} /\ pc' = "close" /\ UNCHANGED exc
            ELSE Abort("OSError") /\ UNCHANGED dirs
  /\ UNCHANGED <<run, chapters_str, force_redownload, chapters_to_download, dom_options,
                 opt_i, chapters, ch_i, driver, sessions, navigations, fetched>>
  /\ UNCHANGED <<pageVars, dlVars, exVars>>

\* line 329
CloseBrowser ==
  /\ pc = "close"
  /\ driver' = "closed"
  /\ pc' = "done"
  /\ UNCHANGED <<run, chapters_str, force_redownload, chapters_to_download, dom_options,
                 opt_i, chapters, ch_i, sessions, navigations, dirs, fetched, exc>>
  /\ UNCHANGED <<pageVars, dlVars, exVars>>

\* the program is run a second time with the same arguments on the same
\* site and the file system the first run left
RunAgain ==
  /\ pc = "done"
  /\ run = "first"
  /\ run' = "second"
  /\ pc' = "parse"
  /\ chapters_to_download' = <<>>
  /\ opt_i' = 0
  /\ chapters' = <<>>
  /\ ch_i' = 0
  /\ driver' = "none"
  /\ sessions' = 0
  /\ navigations' = 0
  /\ fetched' = <<>>
  /\ exc' = "none"
  /\ UNCHANGED <<chapters_str, force_redownload, dom_options, dirs>>
  /\ UNCHANGED <<pageVars, dlVars, exVars>>

Next ==
  \/ ParseArgs
  \/ OpenBrowser
  \/ GetUrl
  \/ AgeVerification
  \/ FindInfoContainer
  \/ FindSelect
  \/ CatalogStep
  \/ CollectStep
  \/ MkdirOutput
  \/ MkdirChapters
  \/ CloseBrowser
  \/ RunAgain

(***************************************************************************)
(* The arguments and the sites main is run on.                             *)
(***************************************************************************)
\* the <option>s the chapter <select> may hold: value is the chapter id,
\* empty on a placeholder; text is WebElement.text, which carries no
\* leading or trailing whitespace
Options ==
  { [value |-> <<"a">>, text |-> <<"C", "h", "a", "p", "t", "e", "r", " ", "1">>],
    [value |-> <<"b">>, text |-> <<"C", "h", "a", "p", "t", "e", "r", " ", "2">>],
    [value |-> <<"c">>, text |-> <<"3">>],
    [value |-> <<"d">>, text |-> <<"C", "h", " ", "1", "0", ".", "5", " ", "n", "e", "w">>],
    [value |-> <<>>, text |-> <<"S", "e", "l", "e", "c", "t">>] }

RECURSIVE SeqsUpTo(_, _)
SeqsUpTo(S, n) ==
  IF n = 0 THEN {<<>>}
  ELSE LET shorter == SeqsUpTo(S, n - 1)
       IN  shorter \cup {Append(s, x) : s \in shorter, x \in S}

Listings == SeqsUpTo(Options, MaxOptions)

\* --chapters values main is run with when the listing varies
MainChapterSpecs == { <<"*">>, <<"1", "-", "2">>, <<"3", ",", "1", "0", ".", "5">>, <<"2">> }

\* the characters a --chapters value is made of when the value varies
SpecAlphabet == {"0", "1", "3", ",", "-", "a"}

ChapterSpecs ==
  SeqsUpTo(SpecAlphabet, MaxSpecLen) \cup {<<"*">>, <<"1", "-", "3">>, <<"1", ",", "3", "-", "4", ",", "7">>}

\* the listing main is run on when the --chapters value varies
SpecListing ==
  << [value |-> <<"b">>, text |-> <<"C", "h", "a", "p", "t", "e", "r", " ", "3">>],
     [value |-> <<"a">>, text |-> <<"C", "h", "a", "p", "t", "e", "r", " ", "1">>] >>

InitRun(specs, listings) ==
  /\ run = "first"
  /\ chapters_str \in specs
  /\ force_redownload \in BOOLEAN
  /\ dom_options \in listings
  /\ dirs = {}
  /\ StartRun
  /\ ExtractIdle
  /\ PageIdle
  /\ DownloadIdle

Init == InitRun(MainChapterSpecs, Listings)

Spec == Init /\ [][Next]_vars

InitSelector == InitRun(ChapterSpecs, {SpecListing})

\* main up to its first navigation, line 245
NextSelector ==
  \/ ParseArgs
  \/ OpenBrowser
  \/ GetUrl

SpecSelector == InitSelector /\ [][NextSelector]_vars

(***************************************************************************)
(* The extraction functions called on arbitrary texts.                     *)
(***************************************************************************)
Pieces ==
  { <<"p", "a", "g", "e", " ">>, <<"c", "h", "a", "p", "t", "e", "r", "-">>,
    <<"1">>, <<"2">>, <<".">>, <<"-">>, <<"/">>, <<" ">>, <<"a">>,
    <<"P", "N", "G">> }

RECURSIVE TextsOf(_)
TextsOf(n) ==
  IF n = 0 THEN {<<>>}
  ELSE LET shorter == TextsOf(n - 1)
       IN  shorter \cup {t \o p : t \in shorter, p \in Pieces}

Texts == TextsOf(MaxPieces)

InitExtract ==
  /\ MainIdle
  /\ PageIdle
  /\ DownloadIdle
  /\ dirs = {}
  /\ fetched = <<>>
  /\ exc = "none"
  /\ input_text \in Texts
  /\ fn = "none"
  /\ ret = Ret(<<>>)

CallExtractChapterNumber ==
  /\ fn = "none"
  /\ fn' = "extract_chapter_number"
  /\ ret' = extract_chapter_number(input_text)
  /\ UNCHANGED input_text
  /\ UNCHANGED <<mainLocals, worldVars, pageVars, dlVars>>

CallExtractPageNumber ==
  /\ fn = "none"
  /\ fn' = "extract_page_number"
  /\ ret' = extract_page_number(input_text)
  /\ UNCHANGED input_text
  /\ UNCHANGED <<mainLocals, worldVars, pageVars, dlVars>>

CallExtractFileExtension ==
  /\ fn = "none"
  /\ fn' = "extract_file_extension"
  /\ ret' = Ret(extract_file_extension(input_text))
  /\ UNCHANGED input_text
  /\ UNCHANGED <<mainLocals, worldVars, pageVars, dlVars>>

NextExtract ==
  \/ CallExtractChapterNumber
  \/ CallExtractPageNumber
  \/ CallExtractFileExtension

SpecExtract == InitExtract /\ [][NextExtract]_vars
(***************************************************************************)
(* download_images, one step of its loops at a time.                       *)
(***************************************************************************)
\* what requests.get may do: answer 2xx, answer another status (the
\* response is returned all the same), or raise ConnectionError
FetchOutcomes == {"ok", "http_error", "network_error"}

\* the body requests.get(...).content holds after an outcome
BodyOf(outcome) == IF outcome = "ok" THEN "image" ELSE "error_page"

\* f"{output_directory}/cover.{file_ext}"
CoverPath(file_ext) == <<output_directory, <<"c", "o", "v", "e", "r", ".">> \o file_ext>>

\* f"{output_directory}/chapters/{chapter}"
ChapterPath(ch) == <<output_directory, <<"c", "h", "a", "p", "t", "e", "r", "s">>, ch>>

\* f"{output_directory}/chapters/{chapter}/{page}.{file_extension}"
PagePath(ch, page, file_extension) ==
  <<output_directory, <<"c", "h", "a", "p", "t", "e", "r", "s">>, ch, page \o <<".">> \o file_extension>>

\* line 138 without the test: the cover is taken to be missing
CoverMissingAlways(path, fs) == TRUE

\* line 138: the cover is not on disk yet
CoverMissing(path, fs) == path \notin DOMAIN fs

\* the directory a path lies in
Parent(path) == SubSeq(path, 1, Len(path) - 1)

\* open(path, "wb") then f.write(requests.get(src).content): the file is
\* created or truncated before the request is made, so it is left empty
\* when the request raises
WriteFetched(fs, path, src, outcome) ==
  (path :> [url |-> src,
            body |-> IF outcome = "network_error" THEN "empty" ELSE BodyOf(outcome)]) @@ fs

\* an uncaught exception ends download_images where it is raised
DownloadAbort(e) ==
  /\ dl_pc' = "raised"
  /\ exc' = e

\* the pages download_images is called on: a cover and a numbered page; two
\* more images with an unnumbered path, one with the cover's extension and
\* one with another; an image of another host and a numbered page
DownloadDoms ==
  { << [src |-> <<"h", "t", "t", "p", "s", ":", "/", "/", "m", ".", "p", "i", "c", "t", "u", "r", "e", "s", "/", "c", "o", "v", "e", "r", ".", "j", "p", "g">>, alt |-> <<"c", "o", "v", "e", "r">>],
       [src |-> <<"h", "t", "t", "p", "s", ":", "/", "/", "m", ".", "p", "i", "c", "t", "u", "r", "e", "s", "/", "1", "-", "a", ".", "j", "p", "g">>, alt |-> <<"p", "a", "g", "e", " ", "1">>] >>,
    << [src |-> <<"h", "t", "t", "p", "s", ":", "/", "/", "m", ".", "p", "i", "c", "t", "u", "r", "e", "s", "/", "b", "a", "n", "n", "e", "r", ".", "j", "p", "g">>, alt |-> <<>>],
       [src |-> <<"h", "t", "t", "p", "s", ":", "/", "/", "m", ".", "p", "i", "c", "t", "u", "r", "e", "s", "/", "c", "o", "v", "e", "r", ".", "P", "N", "G">>, alt |-> <<"c", "o", "v", "e", "r">>] >>,
    << [src |-> <<"h", "t", "t", "p", "s", ":", "/", "/", "s", "i", "t", "e", "/", "l", "o", "g", "o", ".", "p", "n", "g">>, alt |-> <<"l", "o", "g", "o">>],
       [src |-> <<"h", "t", "t", "p", "s", ":", "/", "/", "m", ".", "p", "i", "c", "t", "u", "r", "e", "s", "/", "2", "-", "b", ".", "P", "N", "G">>, alt |-> <<"p", "a", "g", "e", " ", "2">>] >> }

\* the chapter numbers download_images is called with
ChapterArgs == { <<"1">>, <<"2">> }

\* lines 125-128: a call of download_images on the page the driver shows,
\* the first one or one made after the last call returned or raised
DownloadImages ==
  /\ dl_pc \in {"idle", "raised"}
  /\ calls < MaxCalls
  /\ calls' = calls + 1
  /\ img_elements' \in DownloadDoms
  /\ chapter' \in ChapterArgs
  /\ images' = <<>>
  /\ dl_i' = 1
  /\ dl_j' = 0
  /\ dl_pc' = "scan"
  /\ exc' = "none"
  /\ UNCHANGED <<files, dirs, fetched, pages_ret>>
  /\ UNCHANGED <<mainLocals, exVars>>

\* lines 130-144: one turn of the first loop
ScanStep ==
  /\ dl_pc = "scan"
  /\ dl_i <= Len(img_elements)
  /\ LET src == img_elements[dl_i].src
         file_ext == extract_file_extension(src)
         path == CoverPath(file_ext)
     IN  IF Falsy(src) \/ ~Contains(src, PicturesMarker)
         THEN /\ dl_i' = dl_i + 1
              /\ UNCHANGED <<images, files, fetched, dl_pc, exc>>
         ELSE IF ~is_cover_image(src)
         THEN /\ images' = Append(images, img_elements[dl_i])
              /\ dl_i' = dl_i + 1
              /\ UNCHANGED <<files, fetched, dl_pc, exc>>
         ELSE IF ~CoverMissing(path, files)
         THEN /\ dl_i' = dl_i + 1
              /\ UNCHANGED <<images, files, fetched, dl_pc, exc>>
         ELSE IF Parent(path) \notin dirs
         THEN /\ DownloadAbort("FileNotFoundError")
              /\ UNCHANGED <<images, files, fetched, dl_i>>
         ELSE \E outcome \in FetchOutcomes :
                /\ files' = WriteFetched(files, path, src, outcome)
                /\ fetched' = Append(fetched, [url |-> src, path |-> path])
                /\ UNCHANGED images
                /\ IF outcome = "network_error"
                   THEN DownloadAbort("ConnectionError") /\ UNCHANGED dl_i
                   ELSE dl_i' = dl_i + 1 /\ UNCHANGED <<dl_pc, exc>>
  /\ UNCHANGED <<calls, img_elements, chapter, dl_j, dirs, pages_ret>>
  /\ UNCHANGED <<mainLocals, exVars>>

\* lines 146-158: the first loop is over, the second starts
ScanEnd ==
  /\ dl_pc = "scan"
  /\ dl_i > Len(img_elements)
  /\ dl_pc' = "pages"
  /\ dl_j' = 1
  /\ UNCHANGED <<calls, img_elements, chapter, images, dl_i, files, dirs, fetched, exc,
                 pages_ret>>
  /\ UNCHANGED <<mainLocals, exVars>>

\* lines 158-174: one turn of the second loop
PageStep ==
  /\ dl_pc = "pages"
  /\ dl_j <= Len(images)
  /\ LET image_src == images[dl_j].src
         image_alt == images[dl_j].alt
         page == extract_page_number(image_alt)
         file_extension == extract_file_extension(image_src)
         path == PagePath(chapter, page.val, file_extension)
     IN  IF Falsy(image_alt)
         THEN /\ dl_j' = dl_j + 1
              /\ UNCHANGED <<files, dirs, fetched, dl_pc, exc>>
         ELSE IF page.exc # "none"
         THEN /\ DownloadAbort(page.exc)
              /\ UNCHANGED <<files, dirs, fetched, dl_j>>
         ELSE IF ChapterPath(chapter) \notin dirs /\ Parent(ChapterPath(chapter)) \notin dirs
         THEN /\ DownloadAbort("FileNotFoundError")
              /\ UNCHANGED <<files, dirs, fetched, dl_j>>
         ELSE /\ dirs' = dirs \cup {ChapterPath(chapter)}
              /\ IF image_src = None
                 THEN /\ dl_j' = dl_j + 1
                      /\ UNCHANGED <<files, fetched, dl_pc, exc>>
                 ELSE \E outcome \in FetchOutcomes :
                        /\ files' = WriteFetched(files, path, image_src, outcome)
                        /\ fetched' = Append(fetched, [url |-> image_src, path |-> path])
                        /\ IF outcome = "network_error"
                           THEN DownloadAbort("ConnectionError") /\ UNCHANGED dl_j
                           ELSE dl_j' = dl_j + 1 /\ UNCHANGED <<dl_pc, exc>>
  /\ UNCHANGED <<calls, img_elements, chapter, images, dl_i, pages_ret>>
  /\ UNCHANGED <<mainLocals, exVars>>

\* the second loop is over: download_images returns
DownloadReturn ==
  /\ dl_pc = "pages"
  /\ dl_j > Len(images)
  /\ dl_pc' = "idle"
  /\ UNCHANGED <<calls, img_elements, chapter, images, dl_i, dl_j, files, dirs, fetched,
                 exc, pages_ret>>
  /\ UNCHANGED <<mainLocals, exVars>>

NextDownload ==
  \/ DownloadImages
  \/ ScanStep
  \/ ScanEnd
  \/ PageStep
  \/ DownloadReturn

InitDownload ==
  /\ MainIdle
  /\ ExtractIdle
  /\ dirs = {OutDir, ChaptersDir}
  /\ fetched = <<>>
  /\ exc = "none"
  /\ PageIdle
  /\ DownloadIdle

SpecDownload == InitDownload /\ [][NextDownload]_vars

(***************************************************************************)
(* collect_pages called on arbitrary pages.                                *)
(***************************************************************************)
ImgSrcs ==
  { None, <<"h", "t", "t", "p", "s", ":", "/", "/", "s", "i", "t", "e", "/", "l", "o", "g", "o", ".", "p", "n", "g">>, <<"h", "t", "t", "p", "s", ":", "/", "/", "m", ".", "p", "i", "c", "t", "u", "r", "e", "s", "/", "c", "o", "v", "e", "r", ".", "j", "p", "g">>,
    <<"h", "t", "t", "p", "s", ":", "/", "/", "m", ".", "p", "i", "c", "t", "u", "r", "e", "s", "/", "1", "-", "a", ".", "j", "p", "g">> }

ImgAlts == { None, <<>>, <<"c", "o", "v", "e", "r">>, <<"p", "a", "g", "e", " ", "1">>, <<"p", "a", "g", "e", " ", "1", "2", " ", "o", "f", " ", "F", "o", "o">>, <<"f", "r", "o", "n", "t", " ", "p", "a", "g", "e", " ", "a", "r", "t">> }

CollectDoms == SeqsUpTo([src : ImgSrcs, alt : ImgAlts], MaxImgs)

InitCollect ==
  /\ MainIdle
  /\ ExtractIdle
  /\ DownloadIdle
  /\ dirs = {}
  /\ fetched = <<>>
  /\ exc = "none"
  /\ img_elements \in CollectDoms
  /\ pages_ret = Ret(<<>>)

CallCollectPages ==
  /\ fn = "none"
  /\ fn' = "collect_pages"
  /\ pages_ret' = collect_pages(img_elements)
  /\ UNCHANGED <<input_text, ret, img_elements, dirs, fetched, exc>>
  /\ UNCHANGED <<mainLocals, dlVars>>

NextCollect == CallCollectPages

SpecCollect == InitCollect /\ [][NextCollect]_vars

(***************************************************************************)
(* The catalog of main (C1).                                               *)
(***************************************************************************)
\* the positions at which a whitespace-separated token of s starts
TokenStarts(s) ==
  {p \in 1..Len(s) : s[p] \notin Whitespace /\ (p = 1 \/ s[p - 1] \in Whitespace)}

\* the token of s that starts at position p
TokenAt(s, p) ==
  LET ends == {q \in p..Len(s) : \A j \in p..q : s[j] \notin Whitespace}
  IN  SubSeq(s, p, CHOOSE q \in ends : \A r \in ends : r <= q)

\* the chapter number of a label: its second whitespace-separated token, the
\* whole label when it has no space
NumberOfLabel(label) ==
  IF \E p \in 1..Len(label) : label[p] = " "
  THEN LET first == CHOOSE p \in TokenStarts(label) : \A r \in TokenStarts(label) : p <= r
           rest == TokenStarts(label) \ {first}
       IN  TokenAt(label, CHOOSE p \in rest : \A r \in rest : p <= r)
  ELSE label

SelectionSet == {chapters_to_download[k] : k \in 1..Len(chapters_to_download)}

\* an option of the listing belongs to the catalog
Kept(option) ==
  /\ option.value # <<>>
  /\ \/ <<"*">> \in SelectionSet
     \/ NumberOfLabel(option.text) \in SelectionSet

ReversedListing ==
  [k \in 1..Len(dom_options) |-> dom_options[Len(dom_options) + 1 - k]]

\* the loop of line 266 has run to its end
CatalogBuilt == pc \in {"collect", "mkdir", "close", "done"}

\* C1: once the catalog is built it is the listing reversed, restricted to
\* the options with a non-empty id whose chapter number is selected (or any
\* number under the wildcard), in the reversed listing's order, each entry
\* carrying the option's id and chapter number.
C1_CatalogIsReversedSelection ==
  CatalogBuilt =>
    LET kept == SelectSeq(ReversedListing, Kept)
    IN  /\ Len(chapters) = Len(kept)
        /\ \A k \in 1..Len(kept) :
             /\ chapters[k].id = kept[k].value
             /\ chapters[k].number = NumberOfLabel(kept[k].text)

\* C1 witness: a three-option listing, newest first, of which a placeholder
\* is dropped and the two others are catalogued oldest first.
C1_Witness ==
  /\ pc = "done"
  /\ dom_options = << [value |-> <<"b">>, text |-> <<"C", "h", "a", "p", "t", "e", "r", " ", "2">>],
                      [value |-> <<>>, text |-> <<"S", "e", "l", "e", "c", "t">>],
                      [value |-> <<"a">>, text |-> <<"C", "h", "a", "p", "t", "e", "r", " ", "1">>] >>
  /\ chapters_str = <<"1", "-", "2">>
  /\ Len(chapters) = 2
  /\ chapters[1].number = <<"1">>
  /\ chapters[2].number = <<"2">>

(***************************************************************************)
(* The selection of main (C2, C3).                                         *)
(***************************************************************************)
\* the terms of a specification: its maximal comma-free stretches, as
\* <<first, last>> positions (last = first - 1 for an empty term)
TermSpans(spec) ==
  {sp \in (1..(Len(spec) + 1)) \X (0..Len(spec)) :
     /\ sp[2] >= sp[1] - 1
     /\ \A j \in sp[1]..sp[2] : spec[j] # ","
     /\ (sp[1] = 1 \/ spec[sp[1] - 1] = ",")
     /\ (sp[2] = Len(spec) \/ spec[sp[2] + 1] = ",")}

Terms(spec) == {SubSeq(spec, sp[1], sp[2]) : sp \in TermSpans(spec)}

IsNumber(t) == t # <<>> /\ \A j \in 1..Len(t) : t[j] \in Digits

\* NUMBER "-" NUMBER
IsRange(t) ==
  \E d \in 1..Len(t) :
    /\ t[d] = "-"
    /\ IsNumber(SubSeq(t, 1, d - 1))
    /\ IsNumber(SubSeq(t, d + 1, Len(t)))

DashOf(t) == CHOOSE d \in 1..Len(t) : t[d] = "-"

RangeLow(t) == IntVal(SubSeq(t, 1, DashOf(t) - 1))

RangeHigh(t) == IntVal(SubSeq(t, DashOf(t) + 1, Len(t)))

\* the decimal-string form of an integer has no leading zero
IsDecimalForm(t) == IsNumber(t) /\ (t[1] = "0" => Len(t) = 1)

\* term ("," term)* with term == NUMBER | NUMBER "-" NUMBER
IsTermList(spec) == \A t \in Terms(spec) : IsNumber(t) \/ IsRange(t)

\* the --chapters value has been parsed
Parsed == pc # "parse"

\* the bare NUMBER terms of a specification
BareTerms(spec) == {t \in Terms(spec) : IsNumber(t)}

\* the integers its NUMBER-NUMBER terms span, both ends included
RangeInts(spec) ==
  UNION {RangeLow(t)..RangeHigh(t) : t \in {r \in Terms(spec) : IsRange(r)}}

\* C2: for a specification of comma-separated NUMBER and NUMBER-NUMBER
\* terms the parse succeeds and the selection holds exactly each bare
\* term as written and, for each range, the decimal-string form of every
\* integer from its start to its end inclusive.
C2_SelectionIsExpansion ==
  (Parsed /\ IsTermList(chapters_str)) =>
    /\ exc # "ValueError"
    /\ BareTerms(chapters_str) \subseteq SelectionSet
    /\ RangeInts(chapters_str) \subseteq
         {IntVal(tok) : tok \in {t \in SelectionSet : IsDecimalForm(t)}}
    /\ \A tok \in SelectionSet :
         \/ tok \in BareTerms(chapters_str)
         \/ IsDecimalForm(tok) /\ IntVal(tok) \in RangeInts(chapters_str)

\* C2 witness: "1,3-4,7" has been parsed into {"1", "3", "4", "7"}.
C2_Witness ==
  /\ pc = "open"
  /\ chapters_str = <<"1", ",", "3", "-", "4", ",", "7">>
  /\ SelectionSet = {<<"1">>, <<"3">>, <<"4">>, <<"7">>}

\* a term that is written out and is neither a NUMBER nor NUMBER-NUMBER
IsMalformed(t) == t # <<>> /\ ~IsNumber(t) /\ ~IsRange(t)

\* C3: a specification with a malformed term (a range that is not
\* NUMBER-NUMBER, a bare term that is not a NUMBER) ends the run with
\* ValueError before a browser session is opened or a URL loaded.
C3_MalformedSpecAborts ==
  (/\ Parsed
   /\ chapters_str # <<"*">>
   /\ \E t \in Terms(chapters_str) : IsMalformed(t)) =>
    /\ pc = "raised"
    /\ exc = "ValueError"
    /\ sessions = 0
    /\ navigations = 0

(***************************************************************************)
(* Resumability and the browser session (C4, C5).                          *)
(***************************************************************************)
\* the image URLs of the pages of the catalog
CatalogPageUrls ==
  UNION {{chapters[k].pages[j].image_url : j \in 1..Len(chapters[k].pages)} :
           k \in 1..Len(chapters)}

\* the directory of a chapter of the catalog
ChapterDir(ch) == ChapterPath(ch.number)

\* C4: a second run that completes has fetched no image when --force is
\* not given and every selected chapter's directory exists, and has
\* fetched every page of every selected chapter when --force is given.
C4_SecondRunResumes ==
  (run = "second" /\ pc = "done") =>
    IF force_redownload
    THEN CatalogPageUrls \subseteq {fetched[k].url : k \in 1..Len(fetched)}
    ELSE (\A k \in 1..Len(chapters) : ChapterDir(chapters[k]) \in dirs) => fetched = <<>>

\* C5: when a run that opened a browser session ends, normally or by an
\* exception, the session is closed and it is the only one the run opened.
C5_SessionClosedOnEveryExit ==
  (pc \in {"done", "raised"} /\ sessions >= 1) =>
    /\ driver = "closed"
    /\ sessions = 1

(***************************************************************************)
(* collect_pages and download_images (C6, C7, C10).                        *)
(***************************************************************************)
\* the positions of text at which "page " is followed by a digit
PageNumberStarts(text) ==
  {i \in 1..Len(text) :
     /\ MatchesAt(text, <<"p", "a", "g", "e", " ">>, i)
     /\ i + 5 <= Len(text)
     /\ text[i + 5] \in Digits}

\* the positions of text at which "page " occurs
PageStarts(text) == {i \in 1..Len(text) : MatchesAt(text, <<"p", "a", "g", "e", " ">>, i)}

\* the run of digits that follows the "page " at position i
PageDigitsAt(text, i) ==
  LET ends == {q \in (i + 4)..Len(text) : \A j \in (i + 5)..q : text[j] \in Digits}
  IN  SubSeq(text, i + 5, CHOOSE q \in ends : \A r \in ends : r <= q)

\* C6: every Page collect_pages returns comes from an image whose alt text
\* carries a page number, "page <digits>", and has that number; an image
\* without one (the cover) is not among the pages.
C6_CoverIsNotCollected ==
  (fn = "collect_pages" /\ pages_ret.exc = "none") =>
    \A k \in 1..Len(pages_ret.val) :
      \E j \in 1..Len(img_elements) :
        /\ img_elements[j].src = pages_ret.val[k].image_url
        /\ \E i \in PageNumberStarts(img_elements[j].alt) :
             pages_ret.val[k].number = PageDigitsAt(img_elements[j].alt, i)

\* C7: a fetch that fails, by a network error or by a non-2xx response,
\* neither ends download_images nor leaves the failed response in a file.
C7_FailedFetchIsSkipped ==
  /\ ~(dl_pc = "raised" /\ exc = "ConnectionError")
  /\ \A p \in DOMAIN files : files[p].body # "error_page"

\* the files {output}/cover.{ext}
CoverFiles(fs) == {p \in DOMAIN fs : Len(p) = 2}

\* the requests made for a file
FetchesFor(log, path) == Cardinality({k \in 1..Len(log) : log[k].path = path})

\* C10: no step of any sequence of download_images calls requests or
\* rewrites a cover file that exists, and no cover file is requested more
\* than once.
C10_CoverNeverRefetched ==
  [][/\ \A p \in CoverFiles(files) :
          /\ p \in DOMAIN files'
          /\ files'[p] = files[p]
          /\ FetchesFor(fetched', p) = FetchesFor(fetched, p)
     /\ \A p \in CoverFiles(files') : FetchesFor(fetched', p) <= 1]_vars

\* C10 witness: the second call has passed a cover image whose file
\* cover.jpg the first call wrote from another URL, and has requested
\* nothing.
C10_Witness ==
  /\ calls = 2
  /\ dl_pc = "scan"
  /\ dl_i = 2
  /\ img_elements[1].src = <<"h", "t", "t", "p", "s", ":", "/", "/", "m", ".", "p", "i", "c", "t", "u", "r", "e", "s", "/", "b", "a", "n", "n", "e", "r", ".", "j", "p", "g">>
  /\ fetched = << [url |-> <<"h", "t", "t", "p", "s", ":", "/", "/", "m", ".", "p", "i", "c", "t", "u", "r", "e", "s", "/", "c", "o", "v", "e", "r", ".", "j", "p", "g">>, path |-> CoverPath(<<"j", "p", "g">>)] >>
  /\ CoverPath(<<"j", "p", "g">>) \in DOMAIN files
  /\ files[CoverPath(<<"j", "p", "g">>)].url = <<"h", "t", "t", "p", "s", ":", "/", "/", "m", ".", "p", "i", "c", "t", "u", "r", "e", "s", "/", "c", "o", "v", "e", "r", ".", "j", "p", "g">>

(***************************************************************************)
(* The extraction functions (C8, C9).                                      *)
(***************************************************************************)
\* text has a "chapter-<digits>" substring
HasChapterNumber(text) ==
  \E i \in 1..Len(text) :
    /\ MatchesAt(text, <<"c", "h", "a", "p", "t", "e", "r", "-">>, i)
    /\ i + 8 <= Len(text)
    /\ text[i + 8] \in Digits

\* C8: neither function raises; extract_page_number returns the digits
\* that follow the first "page " when there are any and "0" otherwise;
\* extract_chapter_number returns "0" when the text has no
\* "chapter-<digits>" substring.
C8_ExtractorsAreTotal ==
  /\ fn = "extract_page_number" =>
       /\ ret.exc = "none"
       /\ ret.val =
            IF PageStarts(input_text) # {}
            THEN LET first == CHOOSE i \in PageStarts(input_text) :
                                \A r \in PageStarts(input_text) : i <= r
                 IN  IF first \in PageNumberStarts(input_text)
                     THEN PageDigitsAt(input_text, first)
                     ELSE <<"0">>
            ELSE <<"0">>
  /\ fn = "extract_chapter_number" =>
       /\ ret.exc = "none"
       /\ ~HasChapterNumber(input_text) => ret.val = <<"0">>

UpperLetters == <<"A", "B", "C", "D", "E", "F", "G", "H", "I", "J", "K", "L", "M", "N", "O", "P", "Q", "R", "S", "T", "U", "V", "W", "X", "Y", "Z">>

LowerLetters == <<"a", "b", "c", "d", "e", "f", "g", "h", "i", "j", "k", "l", "m", "n", "o", "p", "q", "r", "s", "t", "u", "v", "w", "x", "y", "z">>

ToLower(text) ==
  [k \in 1..Len(text) |->
     IF \E n \in 1..26 : UpperLetters[n] = text[k]
     THEN LowerLetters[CHOOSE n \in 1..26 : UpperLetters[n] = text[k]]
     ELSE text[k]]

\* the text after the last occurrence of the character c in text, text
\* itself when c does not occur
AfterLast(text, c) ==
  LET at == {i \in 1..Len(text) : text[i] = c}
  IN  IF at = {} THEN text
      ELSE SubSeq(text, (CHOOSE i \in at : \A r \in at : r <= i) + 1, Len(text))

\* C9: extract_file_extension returns, in lowercase, the text after the
\* last "." of the final "/"-delimited segment when that segment has a
\* ".", and "jpg" otherwise.
C9_ExtensionIsLowercase ==
  fn = "extract_file_extension" =>
    LET segment == AfterLast(input_text, "/")
    IN  ret.val = IF \E i \in 1..Len(segment) : segment[i] = "."
                  THEN ToLower(AfterLast(segment, "."))
                  ELSE <<"j", "p", "g">>


====
